---- MODULE Spec2Model ----
(***************************************************************************)
(* State-machine model of the exam backend (src/app/main.py, auth.py,      *)
(* models.py): the user, question, result and report stores and the        *)
(* handlers register, submit_exam, get_exam_history, get_exam_details,     *)
(* create_report, the public question reads and the admin question         *)
(* operations.  In Spec, SpecHistory and SpecAll requests are handled one  *)
(* at a time: a handler runs when no response is pending and leaves its    *)
(* response in resp; Return hands the response to the client.  SpecConc    *)
(* and SpecRegister follow submit_exam and register one store call at a    *)
(* time, so that the calls of several workers interleave.  db stands for   *)
(* the document store client that database.get_db() returns.               *)
(*                                                                         *)
(* Abstractions: a question document keeps the fields scoring reads        *)
(* (correct, section); its bilingual text fields are represented by their  *)
(* key set Langs.  A score is the exact quotient 100*correct/total, kept   *)
(* as the pair <<100*correct, total>>.  Document ids of the result store   *)
(* are the positions of the records in creation order; the order in which  *)
(* a query returns records is chosen by the store.                         *)
(***************************************************************************)
EXTENDS Integers, Sequences, FiniteSets, TLC

\* ------------------------------------------------------------------ bounds
MaxAnswers == 2
LongLen == 10
MaxScored == 1
MaxExams == 3
MaxTime == 2
MaxCalls == 2
MaxStored == 2
MaxReports == 1

\* --------------------------------------------------------------- constants
PASS_SCORE == 70

NoneVal == "None"
BadToken == "bad-token"

HTTP_200 == 200
HTTP_400 == 400
HTTP_401 == 401
HTTP_403 == 403
HTTP_404 == 404
HTTP_500 == 500

LegislationSection == {"civil_code", "criminal_code"}
TestMode == {"exam", "demo", "trainer"}
Langs == {"kz", "ru"}

UserIds == {"u1", "u2", "adm"}
QIds == {"q1", "q2"}
Times == 1..MaxTime
Procs == 1..MaxCalls

\* users, questions, exams, reports: the document collections.  resp: the response of
\* the request being answered.  calls: the requests in flight that are followed
\* store call by store call.  dirty: for every stored result and every call,
\* whether a question document was written since it began, and for every call
\* the contents the question store had while the call was in flight.
VARIABLES users, questions, exams, reports, resp, calls, dirty

vars == <<users, questions, exams, reports, resp, calls, dirty>>

\* ------------------------------------------------------------ small helpers
EmptyFcn == [x \in {} |-> 0]

NoTrace == [qreads |-> 0, formatted |-> 0]

\* A response: the HTTP status and body, the request it answers, and the
\* number of question documents the handler read and formatted on the way.
Response(op, status, req, body, trace) ==
    [op |-> op, status |-> status, req |-> req, body |-> body, trace |-> trace]

Idle == Response("idle", 0, EmptyFcn, EmptyFcn, NoTrace)

\* A worker that holds no request.
NoCall == [op |-> "none", pc |-> "idle"]

NoCalls == [p \in Procs |-> NoCall]

Clean ==
    [exams |-> <<>>,
     calls |-> [p \in Procs |-> FALSE],
     stores |-> [p \in Procs |-> {}]]

\* ------------------------------------------------------------------- auth
verify_token(token) ==
    IF token = BadToken THEN NoneVal ELSE token

\* get_current_user raises 401 unless the token decodes to a stored user.
Authenticated(token) ==
    /\ verify_token(token) # NoneVal
    /\ verify_token(token) \in DOMAIN users

\* The UserResponse get_current_user returns for an authenticated token.
get_current_user(token) ==
    [id |-> verify_token(token),
     phone |-> users[verify_token(token)].phone,
     is_admin |-> users[verify_token(token)].is_admin]

\* get_current_admin_user: 0 when the caller passes, else the error status.
AdminStatus_AnyUser(token) ==
    IF ~Authenticated(token) THEN HTTP_401 ELSE 0

AdminStatus(token) ==
    IF ~Authenticated(token) THEN HTTP_401
    ELSE IF ~get_current_user(token).is_admin THEN HTTP_403
    ELSE 0

\* ---------------------------------------------------------------- scoring
\* submit_exam, lines 358-362: the referenced ids that exist, with their data.
QuestionsDict_DefaultDoc(store, answers) ==
    [qid \in {answers[i].question_id : i \in 1..Len(answers)} |->
        IF qid \in DOMAIN store THEN store[qid]
        ELSE [correct |-> 0, section |-> "civil_code"]]

QuestionsDict(store, answers) ==
    [qid \in {answers[i].question_id : i \in 1..Len(answers)} \cap DOMAIN store |->
        store[qid]]

\* line 371
TotalQuestions_Answered(answers) ==
    Cardinality({i \in 1..Len(answers) : answers[i].answer >= 0})

TotalQuestions_DistinctIds(answers) ==
    Cardinality({answers[i].question_id : i \in 1..Len(answers)})

TotalQuestions(answers) == Len(answers)

\* lines 387-388
IsCorrect_NoSignCheck(question, answer) == question.correct = answer

IsCorrect(question, answer) ==
    answer >= 0 /\ question.correct = answer

\* lines 381-384: count the line in its section, creating the entry if absent.
TallyTotal_NewOnly(section_results, section) ==
    IF section = NoneVal THEN section_results
    ELSE IF section \notin DOMAIN section_results
    THEN section_results @@ (section :> [correct |-> 0, total |-> 1])
    ELSE section_results

TallyTotal(section_results, section) ==
    IF section = NoneVal THEN section_results
    ELSE LET sr == IF section \notin DOMAIN section_results
                   THEN section_results @@ (section :> [correct |-> 0, total |-> 0])
                   ELSE section_results
         IN  [sr EXCEPT ![section].total = @ + 1]

\* lines 391-392
TallyCorrect(section_results, section) ==
    IF section = NoneVal THEN section_results
    ELSE [section_results EXCEPT ![section].correct = @ + 1]

\* lines 375-392: one pass of the loop body over answer line i.
ScoreLine(acc, answer, questions_dict) ==
    IF answer.question_id \in DOMAIN questions_dict
    THEN LET question == questions_dict[answer.question_id]
             section == question.section
             counted == TallyTotal(acc.section_results, section)
         IN  IF IsCorrect(question, answer.answer)
             THEN [correct_answers |-> acc.correct_answers + 1,
                   section_results |-> TallyCorrect(counted, section)]
             ELSE [correct_answers |-> acc.correct_answers,
                   section_results |-> counted]
    ELSE acc

RECURSIVE ScoreFrom(_, _, _, _)
ScoreFrom(acc, answers, i, questions_dict) ==
    IF i > Len(answers) THEN acc
    ELSE ScoreFrom(ScoreLine(acc, answers[i], questions_dict), answers, i + 1,
                   questions_dict)

\* lines 372-392: the counters start at zero in every call.
ScoreAnswers_SharedTally(answers, questions_dict) ==
    ScoreFrom(IF exams = <<>>
              THEN [correct_answers |-> 0, section_results |-> EmptyFcn]
              ELSE [correct_answers |-> exams[Len(exams)].correct_answers,
                    section_results |-> exams[Len(exams)].section_results],
              answers, 1, questions_dict)

ScoreAnswers(answers, questions_dict) ==
    ScoreFrom([correct_answers |-> 0, section_results |-> EmptyFcn],
              answers, 1, questions_dict)

\* line 394: the quotient correct/total*100 as <<numerator, denominator>>.
Score_EmptyIsFull(correct_answers, total_questions) ==
    IF total_questions > 0 THEN <<100 * correct_answers, total_questions>>
    ELSE <<100, 1>>

Score(correct_answers, total_questions) ==
    IF total_questions > 0 THEN <<100 * correct_answers, total_questions>>
    ELSE <<0, 1>>

\* line 397
Passed_Strict(score) == score[1] > PASS_SCORE * score[2]

Passed(score) == score[1] >= PASS_SCORE * score[2]

\* lines 400-412: the document written to the result store.
ExamDictFrom(current_user, exam_data, now, questions_dict) ==
    LET total_questions == TotalQuestions(exam_data.answers)
        tally == ScoreAnswers(exam_data.answers, questions_dict)
        score == Score(tally.correct_answers, total_questions)
    IN  [user_id |-> current_user.id,
         mode |-> exam_data.mode,
         total_questions |-> total_questions,
         correct_answers |-> tally.correct_answers,
         score |-> score,
         passed |-> Passed(score),
         section |-> exam_data.section,
         section_results |-> tally.section_results,
         time_spent |-> exam_data.time_spent,
         answers |-> exam_data.answers,
         created_at |-> now]

\* The document of a call whose question reads all see the current store.
ExamDict(current_user, exam_data, now) ==
    ExamDictFrom(current_user, exam_data, now,
                 QuestionsDict(questions, exam_data.answers))

\* lines 418-430: the ExamResult model of a stored document.
ExamResult(exam_id, exam_dict) ==
    [id |-> exam_id,
     user_id |-> exam_dict.user_id,
     mode |-> exam_dict.mode,
     total_questions |-> exam_dict.total_questions,
     correct_answers |-> exam_dict.correct_answers,
     score |-> exam_dict.score,
     passed |-> exam_dict.passed,
     section |-> exam_dict.section,
     section_results |-> exam_dict.section_results,
     time_spent |-> exam_dict.time_spent,
     created_at |-> exam_dict.created_at]

\* line 415: add() stores the document under a new id and never touches the
\* documents already there.
AddDoc_ByUser(store, doc) ==
    IF \E i \in 1..Len(store) : store[i].user_id = doc.user_id
    THEN LET i == CHOOSE i \in 1..Len(store) : store[i].user_id = doc.user_id
         IN  [store EXCEPT ![i] = doc]
    ELSE Append(store, doc)

AddDoc(store, doc) == Append(store, doc)

\* A write to the question store: every stored result and every call that
\* has begun has seen a store that is no longer the current one.
MarkDirty ==
    [exams |-> [i \in DOMAIN dirty.exams |-> TRUE],
     calls |-> [p \in Procs |-> calls[p].pc # "idle" \/ dirty.calls[p]],
     stores |-> [p \in Procs |->
                   IF calls[p].pc \in {"idle", "done"} THEN dirty.stores[p]
                   ELSE dirty.stores[p] \cup {questions'}]]

\* lines 352-368: a document read that raises ends the call in the except
\* branch; the loop does not run again.  A call without lines reads nothing.
LookupFails_Retried(fault, answers) == FALSE

LookupFails(fault, answers) ==
    fault = "lookup" /\ Len(answers) > 0

\* The document reads issued: up to the failing one, else one per line.
LookupReads(fault, answers) ==
    IF LookupFails(fault, answers) THEN 1 ELSE Len(answers)

\* submit_exam, lines 346-435.  fault is the availability of the stores during
\* the call: "lookup" fails the first question read, "persist" fails the write.
submit_exam(token, exam_data, now, fault) ==
    LET answers == exam_data.answers
        req == [token |-> token, fault |-> fault, lines |-> Len(answers),
                answers |-> answers]
    IN  /\ resp.op = "idle"
        /\ IF ~Authenticated(token)
           THEN /\ resp' = Response("submit_exam", HTTP_401, req, EmptyFcn, NoTrace)
                /\ UNCHANGED <<exams, dirty>>
           ELSE IF LookupFails(fault, answers) \/ fault = "persist"
           THEN /\ resp' = Response("submit_exam", HTTP_500, req, EmptyFcn,
                                    [qreads |-> LookupReads(fault, answers),
                                     formatted |-> 0])
                /\ UNCHANGED <<exams, dirty>>
           ELSE LET exam_dict == ExamDict(get_current_user(token), exam_data, now)
                IN  /\ exams' = AddDoc(exams, exam_dict)
                    /\ dirty' = [dirty EXCEPT !.exams = Append(@, FALSE)]
                    /\ resp' = Response("submit_exam", HTTP_200, req,
                                        ExamResult(Len(exams) + 1, exam_dict),
                                        [qreads |-> LookupReads(fault, answers),
                                         formatted |-> 0])
        /\ UNCHANGED <<users, questions, reports, calls>>

\* ------------------------------------------ submit_exam, store call by call
\* The state of worker p's submit_exam between two store calls: the request,
\* the index i of the next answer line to look up, questions_dict as built so
\* far, the store calls issued, and the outcome.  overlapped records that
\* another call was in flight during this one.
SubmitCall(token, exam_data, pc, status, overlapped) ==
    [op |-> "submit_exam", pc |-> pc, token |-> token, exam_data |-> exam_data,
     i |-> 1, questions_dict |-> EmptyFcn, reads |-> 0, writes |-> 0,
     status |-> status, exam_id |-> 0, overlapped |-> overlapped]

InFlight(p) == calls[p].pc \notin {"idle", "done"}

\* lines 346-356: the dependency get_current_user, then the handler starts.
submit_begin(p, token, exam_data) ==
    LET others == {q \in Procs \ {p} : InFlight(q)}
    IN  /\ calls[p].pc = "idle"
        /\ IF ~Authenticated(token)
           THEN /\ calls' = [calls EXCEPT
                                ![p] = SubmitCall(token, exam_data, "done",
                                                  HTTP_401, FALSE)]
                /\ UNCHANGED dirty
           ELSE /\ calls' = [q \in Procs |->
                                IF q = p
                                THEN SubmitCall(token, exam_data, "lookup", 0,
                                                others # {})
                                ELSE IF q \in others
                                THEN [calls[q] EXCEPT !.overlapped = TRUE]
                                ELSE calls[q]]
                /\ dirty' = [dirty EXCEPT !.calls[p] = FALSE,
                                          !.stores[p] = {questions}]
        /\ UNCHANGED <<users, questions, exams, reports, resp>>

\* line 362: the document read is entered under its id if it exists.
ReadInto(questions_dict, qid) ==
    IF qid \in DOMAIN questions
    THEN [q \in DOMAIN questions_dict \cup {qid} |->
             IF q = qid THEN questions[qid] ELSE questions_dict[q]]
    ELSE questions_dict

\* lines 359-362: one pass of the lookup loop reads the document of answer
\* line i, one store call per line.
LookupStep_Batch(call) ==
    [call EXCEPT !.questions_dict = QuestionsDict(questions, call.exam_data.answers),
                 !.i = Len(call.exam_data.answers) + 1,
                 !.reads = @ + 1]

LookupStep(call) ==
    [call EXCEPT !.questions_dict =
                     ReadInto(@, call.exam_data.answers[call.i].question_id),
                 !.i = @ + 1,
                 !.reads = @ + 1]

submit_lookup(p) ==
    LET call == calls[p]
    IN  /\ call.op = "submit_exam"
        /\ call.pc = "lookup"
        /\ call.i <= Len(call.exam_data.answers)
        /\ calls' = [calls EXCEPT ![p] = LookupStep(call)]
        /\ UNCHANGED <<users, questions, exams, reports, resp, dirty>>

\* line 349: current_user is a parameter of the call, resolved for its own
\* token.
CallUser_Global(p) ==
    get_current_user(calls[CHOOSE q \in Procs : InFlight(q)].token)

CallUser(p) == get_current_user(calls[p].token)

\* lines 371-430: the loop is over, the result is computed and added.
submit_persist(p, now) ==
    LET call == calls[p]
        exam_dict == ExamDictFrom(CallUser(p), call.exam_data,
                                  now, call.questions_dict)
    IN  /\ call.op = "submit_exam"
        /\ call.pc = "lookup"
        /\ call.i > Len(call.exam_data.answers)
        /\ exams' = AddDoc(exams, exam_dict)
        /\ dirty' = [dirty EXCEPT !.exams = Append(@, dirty.calls[p])]
        /\ calls' = [calls EXCEPT ![p].pc = "done",
                                  ![p].writes = @ + 1,
                                  ![p].status = HTTP_200,
                                  ![p].exam_id = Len(exams) + 1]
        /\ UNCHANGED <<users, questions, reports, resp>>

\* ------------------------------------------- register, store call by call
\* The state of worker p's register call between its two store calls.
RegisterCall(phone, pc, status, user_id) ==
    [op |-> "register", pc |-> pc, phone |-> phone, status |-> status,
     user_id |-> user_id]

\* line 165: the documents the where-filter on phone selects.
QueryByPhone(phone) == {u \in DOMAIN users : users[u].phone = phone}

\* lines 164-171: the query for the phone and the rejection when it finds a
\* user.
register_check(p, phone) ==
    /\ calls[p].pc = "idle"
    /\ calls' = [calls EXCEPT
                    ![p] = IF QueryByPhone(phone) # {}
                           THEN RegisterCall(phone, "done", HTTP_400, NoneVal)
                           ELSE RegisterCall(phone, "add", 0, NoneVal)]
    /\ UNCHANGED <<users, questions, exams, reports, resp, dirty>>

\* lines 174-196: the user document is added under the id the store
\* generates and the token response is returned.
register_add(p, new_id) ==
    /\ calls[p].op = "register"
    /\ calls[p].pc = "add"
    /\ new_id \notin DOMAIN users
    /\ users' = users @@ (new_id :> [phone |-> calls[p].phone, is_admin |-> FALSE])
    /\ calls' = [calls EXCEPT ![p].pc = "done",
                              ![p].status = HTTP_200,
                              ![p].user_id = new_id]
    /\ UNCHANGED <<questions, exams, reports, resp, dirty>>

\* The client of worker p receives the response; the worker is free again.
call_return(p) ==
    /\ calls[p].pc = "done"
    /\ calls' = [calls EXCEPT ![p] = NoCall]
    /\ UNCHANGED <<users, questions, exams, reports, resp, dirty>>

\* ---------------------------------------------------------------- history
\* line 446: the ids of the documents the where-filter selects.
QueryByUser_All(user_id) == 1..Len(exams)

QueryByUser(user_id) ==
    {i \in 1..Len(exams) : exams[i].user_id = user_id}

\* The orders in which the store may return the documents of a query.
Orders(ids) ==
    {o \in [1..Cardinality(ids) -> ids] : \A i, j \in DOMAIN o : i # j => o[i] # o[j]}

StatOf(tally, section, field) ==
    IF section \in DOMAIN tally THEN tally[section][field] ELSE 0

\* lines 456-461: add one result's section tally into the cumulative tally.
AddStats_Overwrite(overall_statistics, section_results) ==
    [section \in DOMAIN overall_statistics \cup DOMAIN section_results |->
        IF section \in DOMAIN section_results THEN section_results[section]
        ELSE overall_statistics[section]]

AddStats(overall_statistics, section_results) ==
    [section \in DOMAIN overall_statistics \cup DOMAIN section_results |->
        [correct |-> StatOf(overall_statistics, section, "correct")
                     + StatOf(section_results, section, "correct"),
         total |-> StatOf(overall_statistics, section, "total")
                   + StatOf(section_results, section, "total")]]

\* lines 450-461: the fold over the documents in the order returned.
RECURSIVE OverallFrom(_, _, _)
OverallFrom(overall_statistics, docs, i) ==
    IF i > Len(docs) THEN overall_statistics
    ELSE OverallFrom(AddStats(overall_statistics, docs[i].section_results),
                     docs, i + 1)

OverallStatistics(docs) == OverallFrom(EmptyFcn, docs, 1)

\* line 478: list.sort(key=created_at, reverse=True) places an element after
\* every element whose key is greater than or equal to its own.
InsertDesc_TiesFirst(sorted, x) ==
    LET n == Cardinality({k \in 1..Len(sorted) : sorted[k].created_at > x.created_at})
    IN  SubSeq(sorted, 1, n) \o <<x>> \o SubSeq(sorted, n + 1, Len(sorted))

InsertDesc(sorted, x) ==
    LET n == Cardinality({k \in 1..Len(sorted) : sorted[k].created_at >= x.created_at})
    IN  SubSeq(sorted, 1, n) \o <<x>> \o SubSeq(sorted, n + 1, Len(sorted))

RECURSIVE SortFrom(_, _, _)
SortFrom(sorted, results, i) ==
    IF i > Len(results) THEN sorted
    ELSE SortFrom(InsertDesc(sorted, results[i]), results, i + 1)

SortByCreatedDesc(results) == SortFrom(<<>>, results, 1)

\* lines 449-484: the response body built from the documents as returned.
ExamHistoryResponse(order) ==
    LET docs == [i \in 1..Len(order) |-> exams[order[i]]]
        exam_results == [i \in 1..Len(order) |-> ExamResult(order[i], exams[order[i]])]
        sorted == SortByCreatedDesc(exam_results)
    IN  [exams |-> sorted,
         total_exams |-> Len(sorted),
         overall_statistics |-> OverallStatistics(docs)]

\* get_exam_history, lines 438-484.  order is the order in which the store
\* returns the documents of the query.
get_exam_history(token, order) ==
    LET req == [token |-> token, order |-> order]
    IN  /\ resp.op = "idle"
        /\ IF ~Authenticated(token)
           THEN /\ order = <<>>
                /\ resp' = Response("get_exam_history", HTTP_401, req, EmptyFcn, NoTrace)
           ELSE /\ order \in Orders(QueryByUser(get_current_user(token).id))
                /\ resp' = Response("get_exam_history", HTTP_200, req,
                                    ExamHistoryResponse(order), NoTrace)
        /\ UNCHANGED <<users, questions, exams, reports, calls, dirty>>

\* ----------------------------------------------------------------- details
\* format_question_for_language, lines 244-257: indexing a bilingual field by a
\* language it does not hold, or an unknown section tag, raises.
FormatRaises(question_data, lang) ==
    \/ question_data.section \notin LegislationSection
    \/ lang \notin Langs

format_question_for_language(question_id, question_data, lang) ==
    [id |-> question_id,
     question |-> lang,
     options |-> lang,
     correct |-> question_data.correct,
     explanation |-> lang,
     section |-> question_data.section]

\* lines 517-530: one pass of the loop body over a stored answer line.
\* line 527
DetailIsCorrect_AnyAnswered(question_dict, user_answer) == user_answer >= 0

DetailIsCorrect(question_dict, user_answer) ==
    user_answer >= 0 /\ question_dict.correct = user_answer

DetailLine(acc, answer_data, lang) ==
    IF acc.raised THEN acc
    ELSE IF answer_data.question_id \notin DOMAIN questions
    THEN [acc EXCEPT !.qreads = @ + 1]
    ELSE LET question_dict == questions[answer_data.question_id]
         IN  IF FormatRaises(question_dict, lang)
             THEN [acc EXCEPT !.qreads = @ + 1, !.raised = TRUE]
             ELSE [acc EXCEPT
                     !.qreads = @ + 1,
                     !.formatted = @ + 1,
                     !.items = Append(@,
                        [question |-> format_question_for_language(
                                         answer_data.question_id, question_dict, lang),
                         user_answer |-> answer_data.answer,
                         is_correct |-> DetailIsCorrect(question_dict,
                                                        answer_data.answer)])]

RECURSIVE DetailFrom(_, _, _, _)
DetailFrom(acc, answers, i, lang) ==
    IF i > Len(answers) THEN acc
    ELSE DetailFrom(DetailLine(acc, answers[i], lang), answers, i + 1, lang)

QuestionsWithAnswers(answers, lang) ==
    DetailFrom([raised |-> FALSE, items |-> <<>>, qreads |-> 0, formatted |-> 0],
               answers, 1, lang)

\* lines 532-544
ExamSummary(exam_id, exam_data) ==
    [id |-> exam_id,
     mode |-> exam_data.mode,
     score |-> exam_data.score,
     correct_answers |-> exam_data.correct_answers,
     total_questions |-> exam_data.total_questions,
     passed |-> exam_data.passed,
     time_spent |-> exam_data.time_spent,
     created_at |-> exam_data.created_at]

\* lines 494-554: status, body and reads of get_exam_details for a caller.
ExamDetails_CheckLate(current_user, exam_id, lang) ==
    IF exam_id \notin 1..Len(exams)
    THEN [status |-> HTTP_404, body |-> EmptyFcn, trace |-> NoTrace]
    ELSE LET r == QuestionsWithAnswers(exams[exam_id].answers, lang)
             trace == [qreads |-> r.qreads, formatted |-> r.formatted]
         IN  IF r.raised
             THEN [status |-> HTTP_500, body |-> EmptyFcn, trace |-> trace]
             ELSE IF exams[exam_id].user_id # current_user.id
             THEN [status |-> HTTP_403, body |-> EmptyFcn, trace |-> trace]
             ELSE [status |-> HTTP_200,
                   body |-> [exam |-> ExamSummary(exam_id, exams[exam_id]),
                             questions |-> r.items],
                   trace |-> trace]

ExamDetails(current_user, exam_id, lang) ==
    IF exam_id \notin 1..Len(exams)
    THEN [status |-> HTTP_404, body |-> EmptyFcn, trace |-> NoTrace]
    ELSE IF exams[exam_id].user_id # current_user.id
    THEN [status |-> HTTP_403, body |-> EmptyFcn, trace |-> NoTrace]
    ELSE LET r == QuestionsWithAnswers(exams[exam_id].answers, lang)
             trace == [qreads |-> r.qreads, formatted |-> r.formatted]
         IN  IF r.raised
             THEN [status |-> HTTP_500, body |-> EmptyFcn, trace |-> trace]
             ELSE [status |-> HTTP_200,
                   body |-> [exam |-> ExamSummary(exam_id, exams[exam_id]),
                             questions |-> r.items],
                   trace |-> trace]

\* get_exam_details, lines 487-554
get_exam_details(token, exam_id, lang) ==
    LET req == [token |-> token, exam_id |-> exam_id, lang |-> lang]
    IN  /\ resp.op = "idle"
        /\ IF ~Authenticated(token)
           THEN resp' = Response("get_exam_details", HTTP_401, req, EmptyFcn, NoTrace)
           ELSE LET d == ExamDetails(get_current_user(token), exam_id, lang)
                IN  resp' = Response("get_exam_details", d.status, req, d.body, d.trace)
        /\ UNCHANGED <<users, questions, exams, reports, calls, dirty>>

\* ------------------------------------------------------------------- admin
\* lines 643-650
QuestionDict(question_data) ==
    [correct |-> question_data.correct, section |-> question_data.section]

\* The response of the admin handlers that return the formatted question.
FormattedResponse(op, req, question_id, question_dict, lang, qreads) ==
    IF FormatRaises(question_dict, lang)
    THEN Response(op, HTTP_500, req, EmptyFcn, [qreads |-> qreads, formatted |-> 0])
    ELSE Response(op, HTTP_200, req,
                  format_question_for_language(question_id, question_dict, lang),
                  [qreads |-> qreads, formatted |-> 1])

\* create_question, lines 636-657.  new_id is the id the store generates.
create_question(token, question_data, lang, new_id) ==
    LET req == [token |-> token]
    IN  /\ resp.op = "idle"
        /\ IF AdminStatus(token) # 0
           THEN /\ resp' = Response("create_question", AdminStatus(token), req,
                                    EmptyFcn, NoTrace)
                /\ UNCHANGED <<questions, dirty>>
           ELSE /\ new_id \notin DOMAIN questions
                /\ questions' = questions @@ (new_id :> QuestionDict(question_data))
                /\ dirty' = MarkDirty
                /\ resp' = FormattedResponse("create_question", req, new_id,
                                             QuestionDict(question_data), lang, 1)
        /\ UNCHANGED <<users, exams, reports, calls>>

\* lines 677-690: only the fields that were passed are replaced.
UpdateDict(question_dict, question_data) ==
    [correct |-> IF question_data.correct # <<>> THEN question_data.correct[1]
                 ELSE question_dict.correct,
     section |-> IF question_data.section # NoneVal THEN question_data.section
                 ELSE question_dict.section]

\* update_question, lines 660-696
update_question(token, question_id, question_data, lang) ==
    LET req == [token |-> token]
    IN  /\ resp.op = "idle"
        /\ IF AdminStatus(token) # 0
           THEN /\ resp' = Response("update_question", AdminStatus(token), req,
                                    EmptyFcn, NoTrace)
                /\ UNCHANGED <<questions, dirty>>
           ELSE IF question_id \notin DOMAIN questions
           THEN /\ resp' = Response("update_question", HTTP_404, req, EmptyFcn,
                                    [qreads |-> 1, formatted |-> 0])
                /\ UNCHANGED <<questions, dirty>>
           ELSE LET updated == UpdateDict(questions[question_id], question_data)
                IN  /\ questions' = [questions EXCEPT ![question_id] = updated]
                    /\ dirty' = MarkDirty
                    /\ resp' = FormattedResponse("update_question", req,
                                                 question_id, updated, lang, 2)
        /\ UNCHANGED <<users, exams, reports, calls>>

\* delete_question, lines 699-715
delete_question(token, question_id) ==
    LET req == [token |-> token]
    IN  /\ resp.op = "idle"
        /\ IF AdminStatus(token) # 0
           THEN /\ resp' = Response("delete_question", AdminStatus(token), req,
                                    EmptyFcn, NoTrace)
                /\ UNCHANGED <<questions, dirty>>
           ELSE IF question_id \notin DOMAIN questions
           THEN /\ resp' = Response("delete_question", HTTP_404, req, EmptyFcn,
                                    [qreads |-> 1, formatted |-> 0])
                /\ UNCHANGED <<questions, dirty>>
           ELSE /\ questions' = [q \in DOMAIN questions \ {question_id} |-> questions[q]]
                /\ dirty' = MarkDirty
                /\ resp' = Response("delete_question", HTTP_200, req, EmptyFcn,
                                    [qreads |-> 1, formatted |-> 0])
        /\ UNCHANGED <<users, exams, reports, calls>>

\* ------------------------------------------------------------ public reads
\* get_question, lines 331-343
get_question(question_id, lang) ==
    LET req == [question_id |-> question_id, lang |-> lang]
    IN  /\ resp.op = "idle"
        /\ IF question_id \notin DOMAIN questions
           THEN resp' = Response("get_question", HTTP_404, req, EmptyFcn,
                                 [qreads |-> 1, formatted |-> 0])
           ELSE resp' = FormattedResponse("get_question", req, question_id,
                                          questions[question_id], lang, 1)
        /\ UNCHANGED <<users, questions, exams, reports, calls, dirty>>

\* get_trainer_questions, lines 317-328.  order is the order in which the
\* store returns the documents of the section.
get_trainer_questions(section, lang, order) ==
    LET req == [section |-> section, lang |-> lang]
        found == {q \in DOMAIN questions : questions[q].section = section}
        raises == \E i \in 1..Len(order) : FormatRaises(questions[order[i]], lang)
    IN  /\ resp.op = "idle"
        /\ order \in Orders(found)
        /\ IF raises
           THEN resp' = Response("get_trainer_questions", HTTP_500, req, EmptyFcn,
                                 [qreads |-> Len(order), formatted |-> 0])
           ELSE resp' = Response("get_trainer_questions", HTTP_200, req,
                                 [i \in 1..Len(order) |->
                                     format_question_for_language(
                                         order[i], questions[order[i]], lang)],
                                 [qreads |-> Len(order), formatted |-> Len(order)])
        /\ UNCHANGED <<users, questions, exams, reports, calls, dirty>>

\* get_translations, lines 130-136: the keys of the loaded translations are
\* Langs; any other code is served the kz texts.
get_translations(lang) ==
    LET req == [lang |-> lang]
        served == IF lang \notin Langs THEN "kz" ELSE lang
    IN  /\ resp.op = "idle"
        /\ resp' = Response("get_translations", HTTP_200, req,
                            [lang |-> served, translations |-> served], NoTrace)
        /\ UNCHANGED <<users, questions, exams, reports, calls, dirty>>

\* ----------------------------------------------------------------- reports
\* create_report, lines 559-574
create_report(token, text, now) ==
    LET req == [token |-> token]
    IN  /\ resp.op = "idle"
        /\ IF ~Authenticated(token)
           THEN /\ resp' = Response("create_report", HTTP_401, req, EmptyFcn, NoTrace)
                /\ UNCHANGED reports
           ELSE /\ reports' = Append(reports,
                                     [user_id |-> get_current_user(token).id,
                                      text |-> text,
                                      created_at |-> now,
                                      processed |-> FALSE])
                /\ resp' = Response("create_report", HTTP_200, req,
                                    [id |-> Len(reports) + 1], NoTrace)
        /\ UNCHANGED <<users, questions, exams, calls, dirty>>

\* The client receives the pending response.
Return ==
    /\ resp.op # "idle"
    /\ resp' = Idle
    /\ UNCHANGED <<users, questions, exams, reports, calls, dirty>>

\* ------------------------------------------------------------------ inputs
\* Bearer tokens: of the two candidates, of a user that is not stored, invalid.
Callers == {"u1", "u2", "ghost", BadToken}
AdminCallers == {"adm", "u1", BadToken}
LangInputs == Langs \cup {"en"}
Corrects == {-1, 0}
AnswerValues == {-1, 0}
Faults == {"none", "lookup", "persist"}

ExamAnswer == [question_id : QIds, answer : AnswerValues]

\* Every answer list of at most MaxAnswers lines.
ShortAnswers == UNION {[1..n -> ExamAnswer] : n \in 0..MaxAnswers}

\* LongLen lines on q1 of which the first k choose option 0 and the rest are
\* left unanswered.
LongAnswers ==
    {[i \in 1..LongLen |->
        [question_id |-> "q1", answer |-> IF i <= k THEN 0 ELSE -1]] : k \in {6, 7}}

\* mode, section filter and elapsed time of a submission.
Headers ==
    {[mode |-> "exam", section |-> NoneVal, time_spent |-> <<60>>],
     [mode |-> "demo", section |-> "criminal_code", time_spent |-> <<>>],
     [mode |-> "trainer", section |-> "civil_code", time_spent |-> <<60>>]}

ExamSubmitOf(header, answers) ==
    [mode |-> header.mode, answers |-> answers, section |-> header.section,
     time_spent |-> header.time_spent]

ExamSubmit ==
    {ExamSubmitOf(h, a) : h \in Headers, a \in ShortAnswers \cup LongAnswers}

\* The submissions of the history scenarios: one section, or both.
HistorySubmit ==
    {ExamSubmitOf([mode |-> "exam", section |-> NoneVal, time_spent |-> <<>>], a) :
        a \in {<<[question_id |-> "q1", answer |-> 0]>>,
               <<[question_id |-> "q1", answer |-> 0],
                 [question_id |-> "q2", answer |-> -1]>>}}

\* The submission of the whole-API and the concurrent scenarios.
AllSubmit ==
    {ExamSubmitOf([mode |-> "exam", section |-> NoneVal, time_spent |-> <<>>],
                  <<[question_id |-> "q1", answer |-> 0],
                    [question_id |-> "q2", answer |-> 0]>>)}

QuestionCreate == [correct : Corrects, section : LegislationSection]

QuestionUpdate ==
    [correct : {<<>>} \cup {<<c>> : c \in Corrects},
     section : {NoneVal} \cup LegislationSection]

\* ------------------------------------------------------------ specification
\* The users collection as provisioned: two candidates and one administrator.
ProvisionedUsers == [u \in UserIds |-> [phone |-> u, is_admin |-> (u = "adm")]]

Init ==
    /\ users = ProvisionedUsers
    /\ questions = EmptyFcn
    /\ exams = <<>>
    /\ reports = <<>>
    /\ resp = Idle
    /\ calls = NoCalls
    /\ dirty = Clean

SubmitExam ==
    /\ resp.op = "idle"
    /\ Len(exams) < MaxScored
    /\ \E token \in Callers, exam_data \in ExamSubmit, fault \in Faults :
          submit_exam(token, exam_data, 1, fault)

GetExamHistory ==
    /\ resp.op = "idle"
    /\ \E token \in UserIds \cup {BadToken} :
          \E order \in Orders(IF Authenticated(token)
                              THEN QueryByUser(get_current_user(token).id) ELSE {}) :
              get_exam_history(token, order)

GetExamDetails ==
    /\ resp.op = "idle"
    /\ \E token \in {"u1", "u2", BadToken}, exam_id \in 1..(Len(exams) + 1),
          lang \in {"kz", "en"} :
          get_exam_details(token, exam_id, lang)

CreateQuestion ==
    /\ resp.op = "idle"
    /\ \E token \in AdminCallers, question_data \in QuestionCreate, lang \in LangInputs,
          new_id \in QIds :
          create_question(token, question_data, lang, new_id)

UpdateQuestion ==
    /\ resp.op = "idle"
    /\ \E token \in AdminCallers, question_id \in QIds, question_data \in QuestionUpdate,
          lang \in LangInputs :
          update_question(token, question_id, question_data, lang)

DeleteQuestion ==
    /\ resp.op = "idle"
    /\ \E token \in AdminCallers, question_id \in QIds :
          delete_question(token, question_id)

Next ==
    \/ SubmitExam
    \/ CreateQuestion
    \/ UpdateQuestion
    \/ DeleteQuestion
    \/ Return

Spec == Init /\ [][Next]_vars

\* The history scenarios: the question bank holds one question per section
\* (the state after two create_question calls) and submissions accumulate.
InitHistory ==
    /\ users = ProvisionedUsers
    /\ questions = ("q1" :> [correct |-> 0, section |-> "civil_code"])
                   @@ ("q2" :> [correct |-> 0, section |-> "criminal_code"])
    /\ exams = <<>>
    /\ reports = <<>>
    /\ resp = Idle
    /\ calls = NoCalls
    /\ dirty = Clean

SubmitExamHistory ==
    /\ resp.op = "idle"
    /\ Len(exams) < MaxExams
    /\ \E token \in {"u1", "u2"}, exam_data \in HistorySubmit, now \in Times :
          submit_exam(token, exam_data, now, "none")

NextHistory ==
    \/ SubmitExamHistory
    \/ GetExamHistory
    \/ GetExamDetails
    \/ Return

SpecHistory == InitHistory /\ [][NextHistory]_vars

\* -------------------------------------- specification of concurrent calls
\* MaxCalls workers each serve one submit_exam while an administrator edits
\* the question bank; the steps of the calls interleave freely.
SubmitBegin ==
    /\ Len(exams) < MaxStored
    /\ \E p \in Procs, token \in {"u1", "u2"}, exam_data \in AllSubmit :
          submit_begin(p, token, exam_data)

SubmitLookup ==
    /\ Len(exams) < MaxStored
    /\ \E p \in Procs : submit_lookup(p)

SubmitPersist ==
    /\ Len(exams) < MaxStored
    /\ \E p \in Procs : submit_persist(p, 1)

UpdateQuestionConc ==
    /\ resp.op = "idle"
    /\ update_question("adm", "q2", [correct |-> <<-1>>, section |-> NoneVal], "kz")

DeleteQuestionConc ==
    /\ resp.op = "idle"
    /\ delete_question("adm", "q1")

NextConc ==
    \/ SubmitBegin
    \/ SubmitLookup
    \/ SubmitPersist
    \/ UpdateQuestionConc
    \/ DeleteQuestionConc
    \/ Return

SpecConc == InitHistory /\ [][NextConc]_vars

\* ------------------------------------ specification of concurrent register
\* Phone numbers: of a provisioned user, and two that are not registered.
Phones == {"u1", "p1", "p2"}

\* The ids the store generates for new user documents.
NewUserIds == {"n1", "n2"}

RegisterCheck ==
    /\ Cardinality(DOMAIN users) < Cardinality(UserIds) + MaxCalls
    /\ \E p \in Procs, phone \in Phones : register_check(p, phone)

RegisterAdd ==
    /\ Cardinality(DOMAIN users) < Cardinality(UserIds) + MaxCalls
    /\ \E p \in Procs, new_id \in NewUserIds : register_add(p, new_id)

CallReturn ==
    /\ resp.op = "idle"
    /\ \E p \in Procs : call_return(p)

NextRegister ==
    \/ RegisterCheck
    \/ RegisterAdd
    \/ CallReturn

SpecRegister == Init /\ [][NextRegister]_vars

\* ---------------------------------------- specification of the whole API
\* Every handler, with one question document per id and one answer list.
SubmitExamAll ==
    /\ resp.op = "idle"
    /\ Len(exams) < MaxStored
    /\ \E token \in {"u1", "u2", BadToken}, exam_data \in AllSubmit, now \in Times :
          submit_exam(token, exam_data, now, "none")

CreateQuestionAll ==
    /\ resp.op = "idle"
    /\ \E token \in {"adm", "u1"}, lang \in {"kz", "en"}, new_id \in QIds :
          create_question(token, [correct |-> 0, section |-> "civil_code"], lang,
                          new_id)

UpdateQuestionAll ==
    /\ resp.op = "idle"
    /\ \E token \in {"adm", "u1"}, question_id \in QIds :
          update_question(token, question_id,
                          [correct |-> <<-1>>, section |-> NoneVal], "kz")

DeleteQuestionAll ==
    /\ resp.op = "idle"
    /\ \E token \in {"adm", "u1"}, question_id \in QIds :
          delete_question(token, question_id)

GetQuestion ==
    /\ resp.op = "idle"
    /\ \E question_id \in QIds, lang \in LangInputs :
          get_question(question_id, lang)

GetTrainerQuestions ==
    /\ resp.op = "idle"
    /\ \E section \in LegislationSection, lang \in {"kz", "en"} :
          \E order \in Orders({q \in DOMAIN questions :
                                   questions[q].section = section}) :
              get_trainer_questions(section, lang, order)

GetTranslations ==
    /\ resp.op = "idle"
    /\ \E lang \in LangInputs : get_translations(lang)

CreateReport ==
    /\ resp.op = "idle"
    /\ Len(reports) < MaxReports
    /\ \E token \in {"u1", BadToken} : create_report(token, "text", 1)

NextAll ==
    \/ SubmitExamAll
    \/ GetExamHistory
    \/ GetExamDetails
    \/ GetQuestion
    \/ GetTrainerQuestions
    \/ GetTranslations
    \/ CreateReport
    \/ CreateQuestionAll
    \/ UpdateQuestionAll
    \/ DeleteQuestionAll
    \/ Return

SpecAll == Init /\ [][NextAll]_vars

\* ============================================================== properties
\* A submission was accepted: its record is the newest of the result store and
\* the question store is the one it was scored against.
SubmitAccepted == resp.op = "submit_exam" /\ resp.status = HTTP_200

Submitted == exams[resp.body.id]

Resolves(answer) == answer.question_id \in DOMAIN questions

SectionOf(answer) == questions[answer.question_id].section

LinesWhere(answers, P(_)) == {i \in 1..Len(answers) : P(answers[i])}

\* C1: the persisted and the returned total_questions of an accepted submission
\* equal the number of its answer lines, whether a line is unanswered, names a
\* question that does not exist, or repeats a question id.
C1_TotalIsLineCount ==
    /\ \A i \in 1..Len(exams) : exams[i].total_questions = Len(exams[i].answers)
    /\ SubmitAccepted =>
          /\ resp.body.total_questions = resp.req.lines
          /\ Len(Submitted.answers) = resp.req.lines

C1_Witness ==
    /\ SubmitAccepted
    /\ resp.body.total_questions = 2
    /\ Submitted.answers[1].question_id = Submitted.answers[2].question_id
    /\ Submitted.answers[2].answer < 0
    /\ ~Resolves(Submitted.answers[1])

\* C2: a line with a negative selected index is never counted as correct,
\* whatever the stored correct index, yet it counts in the total of its
\* question's section; a submission of negative lines only has
\* correct_answers = 0 and score = 0 while the section totals are incremented.
C2_UnansweredNeverCorrect ==
    SubmitAccepted =>
        LET a == Submitted.answers
            sr == Submitted.section_results
            Answered(x) == x.answer >= 0
            AnsweredIn(s) == {i \in 1..Len(a) :
                                 a[i].answer >= 0 /\ Resolves(a[i]) /\ SectionOf(a[i]) = s}
            UnansweredIn(s) == {i \in 1..Len(a) :
                                   a[i].answer < 0 /\ Resolves(a[i]) /\ SectionOf(a[i]) = s}
        IN  /\ Submitted.correct_answers <= Cardinality(LinesWhere(a, Answered))
            /\ \A s \in DOMAIN sr : sr[s].correct <= Cardinality(AnsweredIn(s))
            /\ \A i \in 1..Len(a) :
                  (a[i].answer < 0 /\ Resolves(a[i])) =>
                      /\ SectionOf(a[i]) \in DOMAIN sr
                      /\ sr[SectionOf(a[i])].total
                            = Cardinality(AnsweredIn(SectionOf(a[i])))
                              + Cardinality(UnansweredIn(SectionOf(a[i])))
            /\ (\A i \in 1..Len(a) : a[i].answer < 0) =>
                  /\ Submitted.correct_answers = 0
                  /\ Submitted.score[1] = 0
                  /\ resp.body.correct_answers = 0
                  /\ resp.body.score[1] = 0
                  /\ \A s \in DOMAIN sr :
                        sr[s].correct = 0 /\ sr[s].total = Cardinality(UnansweredIn(s))

C2_Witness ==
    /\ SubmitAccepted
    /\ Len(Submitted.answers) = 2
    /\ \A i \in 1..2 :
          /\ Submitted.answers[i].answer < 0
          /\ Resolves(Submitted.answers[i])
    /\ questions[Submitted.answers[1].question_id].correct = Submitted.answers[1].answer
    /\ SectionOf(Submitted.answers[1]) # SectionOf(Submitted.answers[2])
    /\ Submitted.correct_answers = 0

\* C3: every stored result has 0 <= correct_answers <= total_questions and,
\* for every section of its section_results, 0 <= correct <= total.
C3_CountsBounded ==
    \A i \in 1..Len(exams) :
        /\ 0 <= exams[i].correct_answers
        /\ exams[i].correct_answers <= exams[i].total_questions
        /\ \A s \in DOMAIN exams[i].section_results :
              /\ 0 <= exams[i].section_results[s].correct
              /\ exams[i].section_results[s].correct <= exams[i].section_results[s].total

C3_Witness ==
    \E i \in 1..Len(exams) :
        /\ exams[i].correct_answers = 2
        /\ exams[i].total_questions = 2
        /\ \E s \in DOMAIN exams[i].section_results :
              exams[i].section_results[s] = [correct |-> 2, total |-> 2]

\* C4: score is correct_answers / total_questions * 100 when total_questions > 0
\* and 0 otherwise, and passed holds exactly when score >= 70, for every mode
\* and section filter alike.
C4_PassedIffSeventy ==
    \A i \in 1..Len(exams) :
        LET c == exams[i].correct_answers
            t == exams[i].total_questions
        IN  /\ exams[i].score = IF t > 0 THEN <<100 * c, t>> ELSE <<0, 1>>
            /\ exams[i].passed = (exams[i].score[1] >= 70 * exams[i].score[2])
            /\ t > 0 => (exams[i].passed = (100 * c >= 70 * t))
            /\ t = 0 => ~exams[i].passed

C4_Witness ==
    \E i \in 1..Len(exams) :
        /\ exams[i].total_questions > 0
        /\ 100 * exams[i].correct_answers = 70 * exams[i].total_questions
        /\ exams[i].passed
        /\ exams[i].mode = "trainer"
        /\ exams[i].section = "civil_code"

\* C5: a line naming a question that is not in the question store does not
\* fail the submission; it counts in total_questions, creates no section
\* entry and adds nothing to correct_answers or to any section's counts.
C5_MissingQuestionIgnored ==
    /\ (/\ resp.op = "submit_exam"
        /\ Authenticated(resp.req.token)
        /\ resp.req.fault = "none") => resp.status = HTTP_200
    /\ SubmitAccepted =>
          LET a == Submitted.answers
              sr == Submitted.section_results
              Missing(x) == ~Resolves(x)
              ResolvedIn(s) == {i \in 1..Len(a) : Resolves(a[i]) /\ SectionOf(a[i]) = s}
          IN  /\ Submitted.total_questions
                    = Cardinality(LinesWhere(a, Resolves))
                      + Cardinality(LinesWhere(a, Missing))
              /\ DOMAIN sr = {SectionOf(a[i]) : i \in LinesWhere(a, Resolves)}
              /\ \A s \in DOMAIN sr : sr[s].total = Cardinality(ResolvedIn(s))
              /\ Submitted.correct_answers <= Cardinality(LinesWhere(a, Resolves))

C5_Witness ==
    /\ SubmitAccepted
    /\ Len(Submitted.answers) = 2
    /\ Resolves(Submitted.answers[1])
    /\ ~Resolves(Submitted.answers[2])
    /\ Submitted.answers[2].answer >= 0
    /\ Submitted.total_questions = 2
    /\ Submitted.correct_answers = 1
    /\ Cardinality(DOMAIN Submitted.section_results) = 1

\* C6: a submission with no answer lines is accepted and persists and returns
\* total_questions = 0, correct_answers = 0, score = 0, passed = false and an
\* empty section_results.
C6_EmptySubmission ==
    (/\ resp.op = "submit_exam"
     /\ Authenticated(resp.req.token)
     /\ resp.req.fault = "none"
     /\ resp.req.lines = 0) =>
        /\ resp.status = HTTP_200
        /\ \A r \in {resp.body, [f \in DOMAIN resp.body \ {"id"} |-> Submitted[f]]} :
              /\ r.total_questions = 0
              /\ r.correct_answers = 0
              /\ r.score[1] = 0
              /\ r.passed = FALSE
              /\ DOMAIN r.section_results = {}
        /\ Submitted.answers = <<>>

C6_Witness ==
    /\ SubmitAccepted
    /\ resp.req.lines = 0
    /\ DOMAIN questions # {}

\* The history of a user was returned.
HistoryReturned == resp.op = "get_exam_history" /\ resp.status = HTTP_200

\* The stored results whose user_id is u.
Owned(u) == {i \in 1..Len(exams) : exams[i].user_id = u}

Perms(ids) ==
    {o \in [1..Cardinality(ids) -> ids] : \A i \in ids : \E k \in DOMAIN o : o[k] = i}

RECURSIVE SumOf(_, _, _)
SumOf(ids, section, field) ==
    IF ids = {} THEN 0
    ELSE LET i == CHOOSE x \in ids : TRUE
         IN  StatOf(exams[i].section_results, section, field)
             + SumOf(ids \ {i}, section, field)

\* C7: overall_statistics holds, for exactly the sections that appear in some
\* result of the user, the sum of correct and the sum of total over all the
\* user's results, and the fold gives the same tally for every order in which
\* the store may return the records.
C7_OverallIsSum ==
    HistoryReturned =>
        LET mine == Owned(resp.req.token)
            overall == resp.body.overall_statistics
        IN  /\ DOMAIN overall = UNION {DOMAIN exams[i].section_results : i \in mine}
            /\ \A s \in DOMAIN overall :
                  /\ overall[s].correct = SumOf(mine, s, "correct")
                  /\ overall[s].total = SumOf(mine, s, "total")
            /\ \A o \in Perms(mine) :
                  OverallStatistics([k \in 1..Len(o) |-> exams[o[k]]]) = overall

C7_Witness ==
    /\ HistoryReturned
    /\ Cardinality(Owned(resp.req.token)) = 3
    /\ \E i, j \in Owned(resp.req.token) :
          exams[i].section_results # exams[j].section_results
    /\ resp.req.order # <<1, 2, 3>>
    /\ resp.body.overall_statistics =
          ("civil_code" :> [correct |-> 3, total |-> 3])
          @@ ("criminal_code" :> [correct |-> 0, total |-> 1])

\* C8: get_exam_history of user U returns exactly the stored results whose
\* user_id is U, total_exams being their number; a user without results gets
\* an empty list, total_exams = 0 and an empty overall_statistics, not an error.
C8_OwnResultsOnly ==
    /\ (resp.op = "get_exam_history" /\ Authenticated(resp.req.token)) =>
          resp.status = HTTP_200
    /\ HistoryReturned =>
          LET mine == Owned(resp.req.token)
              list == resp.body.exams
          IN  /\ {list[k].id : k \in 1..Len(list)} = mine
              /\ Len(list) = Cardinality(mine)
              /\ resp.body.total_exams = Cardinality(mine)
              /\ \A k \in 1..Len(list) :
                    /\ list[k].user_id = resp.req.token
                    /\ \A f \in DOMAIN list[k] \ {"id"} : list[k][f] = exams[list[k].id][f]
              /\ mine = {} =>
                    /\ list = <<>>
                    /\ resp.body.total_exams = 0
                    /\ DOMAIN resp.body.overall_statistics = {}

C8_Witness ==
    /\ HistoryReturned
    /\ Cardinality(Owned(resp.req.token)) = 2
    /\ Cardinality(Owned(resp.req.token)) < Len(exams)
    /\ resp.body.total_exams = 2

\* C9: the returned list is ordered by created_at descending, and results with
\* equal created_at keep the relative order in which the store returned them.
PositionIn(order, id) == CHOOSE k \in 1..Len(order) : order[k] = id

C9_NewestFirstStable ==
    HistoryReturned =>
        LET list == resp.body.exams
        IN  \A i, j \in 1..Len(list) :
                i < j =>
                    /\ list[i].created_at >= list[j].created_at
                    /\ list[i].created_at = list[j].created_at =>
                          PositionIn(resp.req.order, list[i].id)
                             < PositionIn(resp.req.order, list[j].id)

C9_Witness ==
    /\ HistoryReturned
    /\ Len(resp.body.exams) = 3
    /\ resp.body.exams[1].created_at > resp.body.exams[2].created_at
    /\ resp.body.exams[2].created_at = resp.body.exams[3].created_at
    /\ resp.req.order[1] = resp.body.exams[2].id
    /\ resp.req.order[2] = resp.body.exams[3].id
    /\ resp.req.order[3] = resp.body.exams[1].id
    /\ resp.body.exams[2].id > resp.body.exams[3].id

\* C10: get_exam_details of a result whose user_id is not the caller's ends
\* with 403, returns no part of the result, and reads and formats no question
\* before rejecting; an id that names no result ends with 404.
C10_DetailsOwnerOnly ==
    (resp.op = "get_exam_details" /\ Authenticated(resp.req.token)) =>
        /\ resp.req.exam_id \notin 1..Len(exams) =>
              resp.status = HTTP_404 /\ DOMAIN resp.body = {}
        /\ (/\ resp.req.exam_id \in 1..Len(exams)
            /\ exams[resp.req.exam_id].user_id # resp.req.token) =>
              /\ resp.status = HTTP_403
              /\ DOMAIN resp.body = {}
              /\ resp.trace.qreads = 0
              /\ resp.trace.formatted = 0

C10_Witness ==
    /\ resp.op = "get_exam_details"
    /\ resp.status = HTTP_403
    /\ resp.req.token = "u2"
    /\ exams[resp.req.exam_id].user_id = "u1"
    /\ Len(exams[resp.req.exam_id].answers) = 2
    /\ resp.req.lang = "kz"

\* C11: the result store is append-only.  Every step leaves every stored
\* record as it was; an accepted submit_exam adds exactly one record, whose
\* user_id is the submitter and whose answers are the submitted list in
\* order; no other step changes the number of records.
C11_Step ==
    /\ Len(exams') >= Len(exams)
    /\ \A i \in 1..Len(exams) : exams'[i] = exams[i]
    /\ IF resp.op = "idle" /\ resp'.op = "submit_exam" /\ resp'.status = HTTP_200
       THEN /\ Len(exams') = Len(exams) + 1
            /\ exams'[Len(exams')].user_id = resp'.req.token
            /\ exams'[Len(exams')].answers = resp'.req.answers
       ELSE Len(exams') = Len(exams)

C11_AppendOnly == [][C11_Step]_vars

C11_Witness ==
    /\ resp.op = "submit_exam"
    /\ resp.status = HTTP_200
    /\ Len(exams) = 2
    /\ exams[1].user_id = exams[2].user_id

\* The record r is what scoring exam_data for user_id against the current
\* question store gives.
ScoredAgainstStore(r, user_id, exam_data) ==
    LET a == exam_data.answers
        sr == r.section_results
        Correct(x) == /\ Resolves(x)
                      /\ x.answer >= 0
                      /\ questions[x.question_id].correct = x.answer
        c == Cardinality(LinesWhere(a, Correct))
    IN  /\ r.user_id = user_id
        /\ r.mode = exam_data.mode
        /\ r.section = exam_data.section
        /\ r.time_spent = exam_data.time_spent
        /\ r.answers = a
        /\ r.total_questions = Len(a)
        /\ r.correct_answers = c
        /\ r.score = IF Len(a) > 0 THEN <<100 * c, Len(a)>> ELSE <<0, 1>>
        /\ r.passed = (Len(a) > 0 /\ 100 * c >= 70 * Len(a))
        /\ DOMAIN sr = {SectionOf(a[i]) : i \in LinesWhere(a, Resolves)}
        /\ \A s \in DOMAIN sr :
              /\ sr[s].total = Cardinality({i \in LinesWhere(a, Resolves) :
                                               SectionOf(a[i]) = s})
              /\ sr[s].correct = Cardinality({i \in LinesWhere(a, Correct) :
                                                 SectionOf(a[i]) = s})

\* The workers whose submit_exam was accepted and has returned.
AcceptedCalls ==
    {p \in Procs : /\ calls[p].op = "submit_exam"
                   /\ calls[p].pc = "done"
                   /\ calls[p].status = HTTP_200}

\* C12: however the steps of concurrent submit_exam calls interleave, every
\* accepted call has written exactly one record of its own, and while the
\* question store is unchanged since the call began that record is what
\* scoring the call's submission alone gives.
C12_CallsIndependent ==
    /\ Len(exams) = Cardinality(AcceptedCalls)
    /\ \A p \in AcceptedCalls :
          /\ calls[p].writes = 1
          /\ calls[p].exam_id \in 1..Len(exams)
          /\ \A q \in AcceptedCalls \ {p} : calls[q].exam_id # calls[p].exam_id
          /\ ~dirty.calls[p] =>
                ScoredAgainstStore(exams[calls[p].exam_id], calls[p].token,
                                   calls[p].exam_data)

C12_Witness ==
    /\ AcceptedCalls = Procs
    /\ \A p \in Procs :
          /\ calls[p].overlapped
          /\ ~dirty.calls[p]
          /\ exams[calls[p].exam_id].correct_answers = 2
    /\ \E p, q \in Procs : calls[p].token # calls[q].token
    /\ \E p, q \in Procs : p < q /\ calls[p].exam_id > calls[q].exam_id

\* C13: an authenticated submit_exam whose question lookup fails ends with an
\* error after the failing read, without reading again and without writing
\* a record; one whose write fails ends with an error and returns no result.
C13_Step ==
    (/\ resp.op = "idle"
     /\ resp'.op = "submit_exam"
     /\ Authenticated(resp'.req.token)) =>
        /\ (resp'.req.fault = "lookup" /\ resp'.req.lines > 0) =>
              /\ resp'.status = HTTP_500
              /\ DOMAIN resp'.body = {}
              /\ resp'.trace.qreads = 1
              /\ exams' = exams
        /\ resp'.req.fault = "persist" =>
              /\ resp'.status = HTTP_500
              /\ DOMAIN resp'.body = {}
              /\ exams' = exams

C13_FailuresSurface == [][C13_Step]_vars

C13_Witness ==
    /\ resp.op = "submit_exam"
    /\ Authenticated(resp.req.token)
    /\ resp.req.fault = "lookup"
    /\ resp.req.lines = 2
    /\ resp.status = HTTP_500
    /\ resp.trace.qreads = 1
    /\ exams = <<>>

\* C14: two stored results of the same submission, scored with no write to
\* the question store in between, agree in mode, total_questions,
\* correct_answers, score, passed, section and section_results; they differ
\* in id, and may differ in created_at and user only.
C14_ScoringRepeatable ==
    \A i, j \in 1..Len(exams) :
        (/\ i < j
         /\ ~dirty.exams[i]
         /\ exams[i].answers = exams[j].answers
         /\ exams[i].mode = exams[j].mode
         /\ exams[i].section = exams[j].section) =>
            /\ exams[i].total_questions = exams[j].total_questions
            /\ exams[i].correct_answers = exams[j].correct_answers
            /\ exams[i].score = exams[j].score
            /\ exams[i].passed = exams[j].passed
            /\ exams[i].section_results = exams[j].section_results

C14_Witness ==
    /\ Len(exams) = 2
    /\ ~dirty.exams[1]
    /\ exams[1].answers = exams[2].answers
    /\ exams[1].created_at # exams[2].created_at
    /\ exams[1].correct_answers = 1
    /\ exams[2].correct_answers = 1
    /\ DOMAIN questions = {"q1"}

AdminOps == {"create_question", "update_question", "delete_question"}

\* C15: a step changes the question store only if it is create_question,
\* update_question or delete_question called by a user with is_admin; such a
\* call by an authenticated user without is_admin is answered 403 and leaves
\* the store unchanged, and none of them is answered 200 for such a user.
C15_Step ==
    /\ questions' # questions =>
          /\ resp.op = "idle"
          /\ resp'.op \in AdminOps
          /\ Authenticated(resp'.req.token)
          /\ users[resp'.req.token].is_admin
    /\ (/\ resp.op = "idle"
        /\ resp'.op \in AdminOps
        /\ Authenticated(resp'.req.token)
        /\ ~users[resp'.req.token].is_admin) =>
          /\ resp'.status = HTTP_403
          /\ questions' = questions

C15_AdminOnlyWrites == [][C15_Step]_vars

C15_Witness ==
    /\ resp.op = "update_question"
    /\ resp.req.token = "u1"
    /\ resp.status = HTTP_403
    /\ DOMAIN questions = QIds
    /\ Len(exams) = 1

\* C16: a question that exists is served in the requested language, and in
\* kz when the requested language code is not a recognised one; the request
\* does not fail.
C16_LanguageFallback ==
    (resp.op = "get_question" /\ resp.req.question_id \in DOMAIN questions) =>
        LET lang == IF resp.req.lang \in Langs THEN resp.req.lang ELSE "kz"
        IN  /\ resp.status = HTTP_200
            /\ resp.body.question = lang
            /\ resp.body.options = lang
            /\ resp.body.explanation = lang

\* The sum of one counter over the sections secs of a section tally.
RECURSIVE TallySum(_, _, _)
TallySum(section_results, secs, field) ==
    IF secs = {} THEN 0
    ELSE LET s == CHOOSE x \in secs : TRUE
         IN  section_results[s][field] + TallySum(section_results, secs \ {s}, field)

\* C17: every answer line that resolves to an existing question adds exactly
\* 1 to the total of the question's section and, when it is correct, exactly
\* 1 to that section's correct and to correct_answers.  Hence in every result
\* the section corrects sum to correct_answers, and in an accepted submission
\* the section totals sum to the number of lines that resolve.
C17_SectionSums ==
    /\ \A i \in 1..Len(exams) :
          LET sr == exams[i].section_results
          IN  /\ TallySum(sr, DOMAIN sr, "correct") = exams[i].correct_answers
              /\ TallySum(sr, DOMAIN sr, "total") <= Len(exams[i].answers)
    /\ SubmitAccepted =>
          LET a == Submitted.answers
              sr == Submitted.section_results
              Correct(x) == /\ Resolves(x)
                            /\ x.answer >= 0
                            /\ questions[x.question_id].correct = x.answer
          IN  /\ TallySum(sr, DOMAIN sr, "total")
                    = Cardinality(LinesWhere(a, Resolves))
              /\ Submitted.correct_answers = Cardinality(LinesWhere(a, Correct))
              /\ \A s \in DOMAIN sr :
                    /\ sr[s].total
                          = Cardinality({i \in LinesWhere(a, Resolves) :
                                            SectionOf(a[i]) = s})
                    /\ sr[s].correct
                          = Cardinality({i \in LinesWhere(a, Correct) :
                                            SectionOf(a[i]) = s})

C17_Witness ==
    /\ SubmitAccepted
    /\ Len(Submitted.answers) = 2
    /\ Submitted.answers[1].question_id # Submitted.answers[2].question_id
    /\ Resolves(Submitted.answers[1])
    /\ Resolves(Submitted.answers[2])
    /\ Submitted.section_results
          = ("criminal_code" :> [correct |-> 1, total |-> 2])
    /\ Submitted.correct_answers = 1

\* The mapping call p scored against is the content, for the ids the
\* submission names, of one of the stores that existed during the call.
Snapshot(p) ==
    \E store \in dirty.stores[p] :
        LET ids == {calls[p].exam_data.answers[i].question_id :
                       i \in 1..Len(calls[p].exam_data.answers)}
        IN  /\ DOMAIN calls[p].questions_dict = ids \cap DOMAIN store
            /\ \A q \in ids \cap DOMAIN store :
                  calls[p].questions_dict[q] = store[q]

C19_DetailsAgreeWithScore ==
    (/\ resp.op = "get_exam_details"
     /\ resp.status = HTTP_200
     /\ ~dirty.exams[resp.req.exam_id]) =>
        LET r == exams[resp.req.exam_id]
            a == r.answers
            Exists(i) == a[i].question_id \in DOMAIN questions
            present == SelectSeq([i \in 1..Len(a) |-> i], Exists)
            qs == resp.body.questions
        IN  /\ r.user_id = resp.req.token
            /\ Len(qs) = Len(present)
            /\ \A k \in 1..Len(qs) :
                  /\ qs[k].question.id = a[present[k]].question_id
                  /\ qs[k].user_answer = a[present[k]].answer
            /\ Cardinality({k \in 1..Len(qs) : qs[k].is_correct})
                  = r.correct_answers

C19_Witness ==
    /\ resp.op = "get_exam_details"
    /\ resp.status = HTTP_200
    /\ ~dirty.exams[resp.req.exam_id]
    /\ DOMAIN questions = {"q2"}
    /\ Len(resp.body.questions) = 1
    /\ resp.body.questions[1].question.id = "q2"
    /\ resp.body.questions[1].is_correct
    /\ exams[resp.req.exam_id].correct_answers = 1
    /\ exams[resp.req.exam_id].total_questions = 2

\* C20: in every state at most one user document holds a given phone number;
\* a register call that found the phone taken is answered 400, and no two
\* register calls that were answered 200 registered the same phone.
C20_OneUserPerPhone ==
    /\ \A u, v \in DOMAIN users : users[u].phone = users[v].phone => u = v
    /\ \A p, q \in Procs :
          (/\ p # q
           /\ calls[p].op = "register" /\ calls[p].status = HTTP_200
           /\ calls[q].op = "register" /\ calls[q].status = HTTP_200) =>
              calls[p].phone # calls[q].phone

====
